---- MODULE Spec2Model ----
(***************************************************************************)
(* Request handlers of the two applications of the repository:             *)
(*   - the Trivia JSON API   (projects/02_trivia_api/.../flaskr/__init__.py)*)
(*   - the Fyyur booking site (projects/01_fyyur/starter_code/app.py)       *)
(* Every handler is one action.  The relational store is a table per       *)
(* model class; a table is the sequence of its rows in storage order.      *)
(***************************************************************************)
EXTENDS Integers, Sequences, FiniteSets, TLC

(***************************************************************************)
(* Bounds of the model.                                                    *)
(***************************************************************************)
MaxSmallSeed == 1      \* the question table starts with 0..MaxSmallSeed rows,
FullSeed == 11         \* or with FullSeed rows (more than one page)
MaxMutations == 2      \* successful creates + deletes in one behaviour
MaxPage == 2           \* ?page= ranges over -1..MaxPage
MaxReqId == 2          \* ids named by DELETE requests and previous_questions
NumCategories == 2     \* rows of the Category table
MaxVenues == 1         \* venues created in one behaviour
MaxArtists == 1        \* artists created in one behaviour
MaxShows == 2          \* shows created in one behaviour of the detail views
MaxTxShows == 1        \* shows created in one behaviour of the transactions
MaxPending == 2        \* delete requests in flight at once
MaxTime == 2           \* datetime.today() and start_time range over 0..MaxTime

QUESTIONS_PER_PAGE == 10

VARIABLES
    table,        \* Question table: rows in storage order, Hole = freed slot
    nextId,       \* next value of the Question.id sequence
    categories,   \* Category table: categories[id] = type
    response,     \* response to the last Trivia request (with the request)
    deleted,      \* history: ids whose DELETE reported success
    mutations,    \* history: number of successful creates and deletes
    venues,       \* Fyyur: Venue table
    artists,      \* Fyyur: Artist table
    fresponse,    \* Fyyur: last form submission and what it answered
    shows,        \* Fyyur: Show table
    pending,      \* Fyyur: venue ids of the delete requests between get and commit
    now,          \* Fyyur: what datetime.today() gives
    detail,       \* Fyyur: what the last detail view rendered
    quiz          \* a quiz session of the client: category, ids seen, calls

tvars == <<table, nextId, categories, response, deleted, mutations>>

qvars == <<quiz>>

svars == <<shows, pending, now, detail>>

fvars == <<venues, artists, fresponse, shows, pending, now, detail>>

vars == <<table, nextId, categories, response, deleted, mutations,
          venues, artists, fresponse, shows, pending, now, detail, quiz>>

(***************************************************************************)
(* JSON values of a request body: a key is absent, or holds null, a string *)
(* (a sequence of characters) or an integer.                               *)
(***************************************************************************)
Absent == [kind |-> "absent", s |-> <<>>, n |-> 0]
None == [kind |-> "null", s |-> <<>>, n |-> 0]
Str(s) == [kind |-> "str", s |-> s, n |-> 0]
Num(n) == [kind |-> "int", s |-> <<>>, n |-> n]

\* Python: v == None or v == ''
IsNoneOrEmpty(v) == v.kind = "null" \/ (v.kind = "str" /\ v.s = <<>>)

\* Python truth value of a JSON value
Truthy(v) ==
    \/ v.kind = "str" /\ v.s # <<>>
    \/ v.kind = "int" /\ v.n # 0

(***************************************************************************)
(* The Question table.                                                     *)
(***************************************************************************)
Hole == [id |-> 0, question |-> None, answer |-> None,
         category |-> None, difficulty |-> None]

CategoryTypes == <<"Science", "Art", "Geography", "History">>

SeedText(i) ==
    IF i % 3 = 0 THEN <<"A", "b">>
    ELSE IF i % 3 = 1 THEN <<"b", "a">>
    ELSE <<"c">>

SeedRow(i) ==
    [id |-> i, question |-> Str(SeedText(i)), answer |-> Str(<<"x">>),
     category |-> Num(((i - 1) % NumCategories) + 1), difficulty |-> Num(1)]

\* rows of a table or of a query, as a set
Rows(seq) == {seq[i] : i \in 1..Len(seq)} \ {Hole}

\* Query.all() without order_by: the live rows in storage order
All(tbl) == SelectSeq(tbl, LAMBDA r : r # Hole)

\* Query.get(id): <<row>>, or <<>> for None
QueryGet(tbl, id) == SelectSeq(tbl, LAMBDA r : r # Hole /\ r.id = id)

\* the rows with ids lo..hi, by ascending id
RECURSIVE RowsFrom(_, _, _)
RowsFrom(tbl, lo, hi) ==
    IF lo > hi THEN <<>> ELSE QueryGet(tbl, lo) \o RowsFrom(tbl, lo + 1, hi)

\* Query.order_by(Question.id).all()
OrderById(tbl) ==
    LET ids == {tbl[i].id : i \in 1..Len(tbl)}
        maxId == CHOOSE m \in ids \cup {0} : \A x \in ids : x <= m
    IN  RowsFrom(tbl, 1, maxId)

\* Query.first(): <<row>>, or <<>> for None
First(seq) == IF seq = <<>> THEN <<>> ELSE <<Head(seq)>>

\* Question.format()
Format(r) == r

\* Question.delete(): the row's slot is freed
QuestionDelete(tbl, id) ==
    [i \in 1..Len(tbl) |-> IF tbl[i].id = id THEN Hole ELSE tbl[i]]

\* slots a new row may take: a freed slot, or the end of the table
FreeSlots(tbl) == {i \in 1..Len(tbl) : tbl[i] = Hole} \cup {Len(tbl) + 1}

\* Question.insert(): the row gets the next id of the sequence
QuestionInsert(tbl, row, slot) ==
    IF slot = Len(tbl) + 1 THEN Append(tbl, row)
    ELSE [tbl EXCEPT ![slot] = row]

(***************************************************************************)
(* Requests and responses.                                                 *)
(***************************************************************************)
NoPage == [kind |-> "absent", n |-> 0]
BadPage == [kind |-> "bad", n |-> 0]
Page(n) == [kind |-> "int", n |-> n]

PageArgs == {NoPage, BadPage} \cup {Page(n) : n \in -1..MaxPage}

\* pages asked of the search and by-category lists
ListPages == {NoPage} \cup {Page(n) : n \in 1..MaxPage}

NoCategory == [kind |-> "absent", id |-> 0]
NullCategory == [kind |-> "null", id |-> 0]
QuizCategory(i) == [kind |-> "obj", id |-> i]

NoPrevious == [kind |-> "absent", ids |-> {}]
NullPrevious == [kind |-> "null", ids |-> {}]
Previous(S) == [kind |-> "list", ids |-> S]

\* request.get_json() of a request without the keys the handlers read
EmptyBody ==
    [question |-> Absent, answer |-> Absent, category |-> Absent,
     difficulty |-> Absent, searchTerm |-> Absent,
     quiz_category |-> NoCategory, previous_questions |-> NoPrevious]

EmptyReq == [page |-> NoPage, id |-> 0, data |-> EmptyBody]

EmptyResp ==
    [op |-> "none", req |-> EmptyReq, status |-> 0, success |-> FALSE,
     error |-> 0, questions |-> <<>>, total_questions |-> 0,
     categories |-> <<>>, total_categories |-> 0, current_category |-> "",
     deleted |-> 0, created |-> <<>>, question |-> <<>>]

\* jsonify({...}) of a handler that returns normally
Ok(op, req) ==
    [EmptyResp EXCEPT !.op = op, !.req = req, !.status = 200,
                      !.success = TRUE]

\* abort(code), answered by the matching @app.errorhandler
Abort(op, req, code) ==
    [EmptyResp EXCEPT !.op = op, !.req = req, !.status = code,
                      !.error = code]

(***************************************************************************)
(* paginate_questions                                                      *)
(***************************************************************************)
\* Python seq[start:end], negative indices counted from the end
PySlice(seq, start, end) ==
    LET n == Len(seq)
        Norm(i) == IF i < 0 THEN (IF i + n < 0 THEN 0 ELSE i + n)
                   ELSE (IF i > n THEN n ELSE i)
        s == Norm(start)
        e == Norm(end)
    IN  IF s < e THEN SubSeq(seq, s + 1, e) ELSE <<>>

\* request.args.get('page', 1, type=int)
PageOf(arg) == IF arg.kind = "int" THEN arg.n ELSE 1

paginate_questions(pageArg, questions) ==
    LET page == PageOf(pageArg)
        start == (page - 1) * QUESTIONS_PER_PAGE
        end == start + QUESTIONS_PER_PAGE
        formatted_questions == [i \in 1..Len(questions) |-> Format(questions[i])]
    IN  PySlice(formatted_questions, start, end)

(***************************************************************************)
(* Handlers: each yields the response and the table after the request.     *)
(***************************************************************************)
get_categories(req) ==
    [Ok("get_categories", req) EXCEPT
        !.categories = categories,
        !.total_categories = Len(categories)]

get_questions(req) ==
    LET questions == OrderById(table)
        total_questions == Len(questions)
        current_questions == paginate_questions(req.page, questions)
    IN  IF Len(current_questions) = 0
        THEN Abort("get_questions", req, 404)
        ELSE [Ok("get_questions", req) EXCEPT
                 !.questions = current_questions,
                 !.total_questions = total_questions,
                 !.categories = categories]

\* delete_question that reports success without deleting the row
delete_question_keeps_row(req) ==
    LET question == QueryGet(table, req.id)
        raised == question = <<>>
    IN  IF raised
        THEN [resp |-> Abort("delete_question", req, 422), table |-> table]
        ELSE [resp |-> [Ok("delete_question", req) EXCEPT !.deleted = req.id],
              table |-> table]

\* The handler's body is inside try: ... except: abort(422); abort(404)
\* raises inside the try block and the bare except answers it.
delete_question(req) ==
    LET question == QueryGet(table, req.id)
        raised == question = <<>>
    IN  IF raised
        THEN [resp |-> Abort("delete_question", req, 422), table |-> table]
        ELSE [resp |-> [Ok("delete_question", req) EXCEPT !.deleted = req.id],
              table |-> QuestionDelete(table, req.id)]

\* the validation of line 137 without its test of difficulty
create_question_invalid_no_difficulty(data) ==
    \/ IsNoneOrEmpty(data.question)
    \/ IsNoneOrEmpty(data.answer)
    \/ IsNoneOrEmpty(data.category)

\* Missing keys raise KeyError inside the try block; so does abort(422).
create_question_invalid(data) ==
    \/ IsNoneOrEmpty(data.question)
    \/ IsNoneOrEmpty(data.answer)
    \/ IsNoneOrEmpty(data.category)
    \/ IsNoneOrEmpty(data.difficulty)

\* create_question that stores the answer text as the question text
create_question_swapped(req, slot) ==
    LET data == req.data
        keyError == \/ data.question = Absent
                    \/ data.answer = Absent
                    \/ data.category = Absent
                    \/ data.difficulty = Absent
        raised == keyError \/ create_question_invalid(data)
        question == [id |-> nextId, question |-> data.answer,
                     answer |-> data.answer, category |-> data.category,
                     difficulty |-> data.difficulty]
    IN  IF raised
        THEN [resp |-> Abort("create_question", req, 422),
              table |-> table, nextId |-> nextId]
        ELSE [resp |-> [Ok("create_question", req) EXCEPT
                           !.created = <<Format(question)>>],
              table |-> QuestionInsert(table, question, slot),
              nextId |-> nextId + 1]

create_question(req, slot) ==
    LET data == req.data
        keyError == \/ data.question = Absent
                    \/ data.answer = Absent
                    \/ data.category = Absent
                    \/ data.difficulty = Absent
        raised == keyError \/ create_question_invalid(data)
        question == [id |-> nextId, question |-> data.question,
                     answer |-> data.answer, category |-> data.category,
                     difficulty |-> data.difficulty]
    IN  IF raised
        THEN [resp |-> Abort("create_question", req, 422),
              table |-> table, nextId |-> nextId]
        ELSE [resp |-> [Ok("create_question", req) EXCEPT
                           !.created = <<Format(question)>>],
              table |-> QuestionInsert(table, question, slot),
              nextId |-> nextId + 1]

\* lower-case of a character, as ILIKE folds it
Lower(c) == IF c = "A" THEN "a" ELSE IF c = "B" THEN "b" ELSE c

\* SQL LIKE on case-folded characters: % any run, _ any one character
RECURSIVE Like(_, _)
Like(p, s) ==
    IF p = <<>> THEN s = <<>>
    ELSE IF Head(p) = "%"
         THEN Like(Tail(p), s) \/ (s # <<>> /\ Like(p, Tail(s)))
    ELSE IF s = <<>> THEN FALSE
    ELSE IF Head(p) = "_" \/ Lower(Head(p)) = Lower(Head(s))
         THEN Like(Tail(p), Tail(s))
    ELSE FALSE

\* Question.question.ilike('%{}%'.format(search_term))
ilike(text, search_term) ==
    text.kind = "str" /\ Like(<<"%">> \o search_term \o <<"%">>, text.s)

\* An absent searchTerm raises KeyError and a falsy one leaves search_term
\* unbound; neither is inside a try block.
search_questions(req) ==
    LET data == req.data
        raised == data.searchTerm = Absent \/ ~Truthy(data.searchTerm)
        search_term == data.searchTerm.s
        questions == SelectSeq(All(table), LAMBDA r : ilike(r.question, search_term))
        current_questions == paginate_questions(req.page, questions)
    IN  IF raised THEN Abort("search_questions", req, 500)
        ELSE IF questions = <<>> THEN Abort("search_questions", req, 404)
        ELSE [Ok("search_questions", req) EXCEPT
                 !.questions = current_questions,
                 !.total_questions = Len(current_questions)]

\* Category.query.get(id)
CategoryGet(id) == IF id \in 1..Len(categories) THEN <<id>> ELSE <<>>

\* get_question_by_category that counts the questions of the page
get_question_by_category_page_total(req) ==
    LET category == CategoryGet(req.id)
        questions == SelectSeq(All(table), LAMBDA r : r.category = Num(req.id))
        current_questions == paginate_questions(req.page, questions)
    IN  IF category = <<>> THEN Abort("get_question_by_category", req, 404)
        ELSE [Ok("get_question_by_category", req) EXCEPT
                 !.questions = current_questions,
                 !.current_category = categories[req.id],
                 !.total_questions = Len(current_questions)]

get_question_by_category(req) ==
    LET category == CategoryGet(req.id)
        questions == SelectSeq(All(table), LAMBDA r : r.category = Num(req.id))
        current_questions == paginate_questions(req.page, questions)
    IN  IF category = <<>> THEN Abort("get_question_by_category", req, 404)
        ELSE [Ok("get_question_by_category", req) EXCEPT
                 !.questions = current_questions,
                 !.current_category = categories[req.id],
                 !.total_questions = Len(questions)]

\* the category query without its category test
quiz_filter_category_any(tbl, cid, previous_questions) ==
    SelectSeq(All(tbl), LAMBDA r : r.id \notin previous_questions)

\* the category query without notin_
quiz_filter_category_repeats(tbl, cid, previous_questions) ==
    SelectSeq(All(tbl), LAMBDA r : r.category = Num(cid))

\* Question.query.filter(Question.category == category['id'],
\*                       Question.id.notin_(previous_questions))
quiz_filter_category(tbl, cid, previous_questions) ==
    SelectSeq(All(tbl), LAMBDA r : r.category = Num(cid)
                                   /\ r.id \notin previous_questions)

\* the all-categories query without notin_
quiz_filter_all_repeats(tbl, previous_questions) == All(tbl)

\* Question.query.filter(Question.id.notin_(previous_questions))
quiz_filter_all(tbl, previous_questions) ==
    SelectSeq(All(tbl), LAMBDA r : r.id \notin previous_questions)

\* data['quiz_category'] and data['previous_questions'] raise KeyError on a
\* missing key, outside any try block.
get_quiz_question(req) ==
    LET category == req.data.quiz_category
        previous_questions == req.data.previous_questions
        keyError == category.kind = "absent" \/ previous_questions.kind = "absent"
        question ==
            IF category.id # 0
            THEN First(quiz_filter_category(table, category.id, previous_questions.ids))
            ELSE First(quiz_filter_all(table, previous_questions.ids))
    IN  IF keyError THEN Abort("get_quiz_question", req, 500)
        ELSE IF category.kind = "null" \/ previous_questions.kind = "null"
        THEN Abort("get_quiz_question", req, 422)
        ELSE [Ok("get_quiz_question", req) EXCEPT
                 !.question = IF question # <<>> THEN <<Format(question[1])>>
                              ELSE <<>>]

(***************************************************************************)
(* Inputs of the requests.                                                 *)
(***************************************************************************)
ValidBodies ==
    {[EmptyBody EXCEPT !.question = Str(q), !.answer = Str(<<"y">>),
                       !.category = Num(c), !.difficulty = Num(1)] :
        q \in {<<"B", "c">>}, c \in {1, NumCategories + 1}}

BadValues == {Absent, None, Str(<<>>)}

BaseBody == CHOOSE b \in ValidBodies : b.category = Num(1)

\* a complete body in which one field is absent, null or the empty string
InvalidBodies ==
    {[BaseBody EXCEPT !.question = v] : v \in BadValues}
    \cup {[BaseBody EXCEPT !.answer = v] : v \in BadValues}
    \cup {[BaseBody EXCEPT !.category = v] : v \in BadValues}
    \cup {[BaseBody EXCEPT !.difficulty = v] : v \in BadValues}

CreateBodies == ValidBodies \cup InvalidBodies

SearchTerms ==
    {Absent, None, Str(<<>>), Str(<<"a">>), Str(<<"B">>), Str(<<"z">>),
     Str(<<"_">>)}

QuizBodies ==
    {[EmptyBody EXCEPT !.quiz_category = QuizCategory(i),
                       !.previous_questions = Previous(S)] :
        i \in 0..(NumCategories + 1), S \in SUBSET (1..MaxReqId)}
    \cup {[EmptyBody EXCEPT !.quiz_category = c,
                            !.previous_questions = Previous({})] :
             c \in {NoCategory, NullCategory}}
    \cup {[EmptyBody EXCEPT !.quiz_category = QuizCategory(0),
                            !.previous_questions = p] :
             p \in {NoPrevious, NullPrevious}}

(***************************************************************************)
(* Trivia: initial state and actions.                                      *)
(***************************************************************************)
\* no quiz is being played
NoQuiz == [c |-> 0, previous_questions |-> <<>>, calls |-> 0, done |-> FALSE]

TriviaInit ==
    /\ \E n \in (0..MaxSmallSeed) \cup {FullSeed} :
          /\ table = [i \in 1..n |-> SeedRow(i)]
          /\ nextId = n + 1
    /\ categories = [i \in 1..NumCategories |-> CategoryTypes[i]]
    /\ response = EmptyResp
    /\ deleted = {}
    /\ mutations = 0
    /\ quiz = NoQuiz

GetCategories ==
    /\ response' = get_categories(EmptyReq)
    /\ UNCHANGED <<table, nextId, categories, deleted, mutations, fvars, qvars>>

GetQuestions ==
    \E page \in PageArgs :
        /\ response' = get_questions([EmptyReq EXCEPT !.page = page])
        /\ UNCHANGED <<table, nextId, categories, deleted, mutations, fvars, qvars>>

DeleteQuestion ==
    \E id \in 0..MaxReqId :
        LET out == delete_question([EmptyReq EXCEPT !.id = id])
        IN  /\ out.resp.status = 200 => mutations < MaxMutations
            /\ response' = out.resp
            /\ table' = out.table
            /\ deleted' = IF out.resp.status = 200 THEN deleted \cup {id}
                          ELSE deleted
            /\ mutations' = IF out.resp.status = 200 THEN mutations + 1
                            ELSE mutations
            /\ UNCHANGED <<nextId, categories, fvars, qvars>>

CreateQuestion ==
    \E data \in CreateBodies, slot \in FreeSlots(table) :
        LET out == create_question([EmptyReq EXCEPT !.data = data], slot)
        IN  /\ out.resp.status = 200 => mutations < MaxMutations
            /\ response' = out.resp
            /\ table' = out.table
            /\ nextId' = out.nextId
            /\ mutations' = IF out.resp.status = 200 THEN mutations + 1
                            ELSE mutations
            /\ UNCHANGED <<categories, deleted, fvars, qvars>>

SearchQuestions ==
    \E term \in SearchTerms, page \in ListPages :
        /\ response' = search_questions(
               [EmptyReq EXCEPT !.page = page, !.data.searchTerm = term])
        /\ UNCHANGED <<table, nextId, categories, deleted, mutations, fvars, qvars>>

GetQuestionByCategory ==
    \E id \in 1..(NumCategories + 1), page \in ListPages :
        /\ response' = get_question_by_category(
               [EmptyReq EXCEPT !.id = id, !.page = page])
        /\ UNCHANGED <<table, nextId, categories, deleted, mutations, fvars, qvars>>

GetQuizQuestion ==
    \E data \in QuizBodies :
        /\ response' = get_quiz_question([EmptyReq EXCEPT !.data = data])
        /\ UNCHANGED <<table, nextId, categories, deleted, mutations, fvars, qvars>>

(***************************************************************************)
(* A quiz session: the client posts to /quizzes with the ids of the         *)
(* questions it was given so far, until it is given null.                  *)
(***************************************************************************)
QuizInit ==
    /\ \E n \in 0..FullSeed :
          /\ table = [i \in 1..n |-> SeedRow(i)]
          /\ nextId = n + 1
    /\ categories = [i \in 1..NumCategories |-> CategoryTypes[i]]
    /\ response = EmptyResp
    /\ deleted = {}
    /\ mutations = 0
    /\ \E c \in 0..(NumCategories + 1) :
          quiz = [NoQuiz EXCEPT !.c = c]

QuizCall ==
    /\ ~quiz.done
    /\ LET seen == {quiz.previous_questions[i] :
                       i \in 1..Len(quiz.previous_questions)}
           resp == get_quiz_question(
                       [EmptyReq EXCEPT
                           !.data.quiz_category = QuizCategory(quiz.c),
                           !.data.previous_questions = Previous(seen)])
       IN  /\ response' = resp
           /\ quiz' = IF resp.question = <<>>
                      THEN [quiz EXCEPT !.calls = @ + 1, !.done = TRUE]
                      ELSE [quiz EXCEPT
                               !.calls = @ + 1,
                               !.previous_questions =
                                   Append(@, resp.question[1].id)]
    /\ UNCHANGED <<table, nextId, categories, deleted, mutations, fvars>>

(***************************************************************************)
(* Fyyur: forms, tables and the create handlers.                           *)
(***************************************************************************)
Missing == "<missing>"     \* the key is not in request.form
NoValue == "<None>"        \* a column that was never assigned

\* keys read with request.form['key']
VenueKeys == {"name", "city", "state", "address", "phone", "image_link",
              "facebook_link", "website", "seeking_description"}

ArtistKeys == VenueKeys \ {"address"}

FullForm(name, checkbox, genres) ==
    [name |-> name, city |-> "city", state |-> "state",
     address |-> "address", phone |-> "phone", image_link |-> "image",
     facebook_link |-> "facebook", website |-> "website",
     seeking_description |-> "description",
     seeking_talent |-> checkbox, seeking_venue |-> checkbox,
     genres |-> genres]

\* complete forms, and complete forms from which one key was removed
Forms ==
    LET full == {FullForm(n, c, g) : n \in {"A", "B"}, c \in {"y", Missing},
                                     g \in {<<>>, <<"Jazz", "Folk">>}}
        base == FullForm("A", "y", <<"Jazz", "Folk">>)
    IN  full \cup {[base EXCEPT ![k] = Missing] : k \in VenueKeys}

NoForm == FullForm(Missing, Missing, <<>>)

\* a complete form and one without name, for the create handlers
CreateForms ==
    LET base == FullForm("A", "y", <<"Jazz", "Folk">>)
    IN  {base, [base EXCEPT !.name = Missing]}

\* a complete form and one without name, for the edit handlers
EditForms ==
    LET base == FullForm("B", Missing, <<>>)
    IN  {base, [base EXCEPT !.name = Missing]}

\* the form of /shows/create: missing holds the keys that were not posted
ShowForm(artist_id, venue_id, start_time, missing) ==
    [artist_id |-> artist_id, venue_id |-> venue_id,
     start_time |-> start_time, missing |-> missing]

NoShowForm == ShowForm(0, 0, 0, {})

\* ids a request can name: those handed out so far, and the next one
VenueIds == 1..(Len(venues) + 1)

ArtistIds == 1..(Len(artists) + 1)

ShowForms(times) ==
    {ShowForm(a, v, t, {}) : a \in ArtistIds, v \in VenueIds, t \in times}
        \cup {ShowForm(1, 1, 0, {"start_time"})}

\* flash(...) of a handler
Flash(kind, name) == [kind |-> kind, name |-> name]

NoFlash == Flash("none", "")

\* f'{venue_id}' for the ids of the model
str(n) == <<"0", "1", "2", "3", "4", "5", "6", "7", "8", "9">>[n + 1]

\* the state of db.session after the calls a handler made on it
SessionAfter(calls) ==
    IF calls = <<>> THEN "unused"
    ELSE IF calls[Len(calls)] = "close" THEN "closed" ELSE "open"

\* what a handler answered: the request (op, id, form, show), whether the
\* except branch ran, the calls made on db.session, the flash and status
Answer(op, id, form, show, errorFlag, session, status, flash) ==
    [op |-> op, id |-> id, form |-> form, show |-> show,
     errorFlag |-> errorFlag, session |-> session,
     status |-> status, flash |-> flash]

\* a deleted row of Venue: its id is not used again
NoVenue ==
    [id |-> 0, name |-> NoValue, city |-> NoValue, state |-> NoValue,
     address |-> NoValue, phone |-> NoValue, image_link |-> NoValue,
     facebook_link |-> NoValue, genres |-> <<>>, website |-> NoValue,
     seeking_talent |-> FALSE, seeking_description |-> NoValue]

\* Venue.query.get(venue_id), NoVenue for None
VenueGet(venue_id) ==
    IF venue_id \in 1..Len(venues) THEN venues[venue_id] ELSE NoVenue

\* Artist.query.get(artist_id) is not None
ArtistExists(artist_id) == artist_id \in 1..Len(artists)

\* The try block raises at the first missing key; the handler then rolls
\* back, and flashes with request.form['name'], which raises again (400)
\* when name is the missing key.
create_venue_submission(form) ==
    LET errorFlag == \E k \in VenueKeys : form[k] = Missing
        venue == [id |-> Len(venues) + 1,
                  name |-> form.name, city |-> form.city,
                  state |-> form.state, address |-> form.address,
                  phone |-> form.phone, image_link |-> form.image_link,
                  facebook_link |-> form.facebook_link,
                  genres |-> form.genres, website |-> form.website,
                  seeking_talent |-> form.seeking_talent # Missing,
                  seeking_description |-> form.seeking_description]
        op == "create_venue_submission"
        session == IF errorFlag THEN <<"rollback", "close">>
                   ELSE <<"add", "commit", "close">>
    IN  [venues |-> IF errorFlag THEN venues ELSE Append(venues, venue),
         resp |-> IF form.name = Missing
                  THEN Answer(op, 0, form, NoShowForm, errorFlag, session,
                              400, NoFlash)
                  ELSE Answer(op, 0, form, NoShowForm, errorFlag, session, 200,
                              Flash(IF errorFlag THEN "error" ELSE "success",
                                    form.name))]

\* website, seeking_venue and seeking_description are assigned to local
\* names, not to attributes of artist: the columns keep their defaults.
create_artist_submission(form) ==
    LET errorFlag == \E k \in ArtistKeys : form[k] = Missing
        artist == [id |-> Len(artists) + 1,
                   name |-> form.name, city |-> form.city,
                   state |-> form.state,
                   phone |-> form.phone, image_link |-> form.image_link,
                   facebook_link |-> form.facebook_link,
                   genres |-> form.genres, website |-> NoValue,
                   seeking_venue |-> FALSE,
                   seeking_description |-> NoValue]
        op == "create_artist_submission"
        session == IF errorFlag THEN <<"rollback", "close">>
                   ELSE <<"add", "commit", "close">>
    IN  [artists |-> IF errorFlag THEN artists ELSE Append(artists, artist),
         resp |-> IF form.name = Missing
                  THEN Answer(op, 0, form, NoShowForm, errorFlag, session,
                              400, NoFlash)
                  ELSE Answer(op, 0, form, NoShowForm, errorFlag, session, 200,
                              Flash(IF errorFlag THEN "error" ELSE "success",
                                    form.name))]

\* The commit inserts the show unless a key is missing or a foreign key
\* names no row. The form values are the decimal texts of the numbers.
create_show_submission(form) ==
    LET errorFlag == \/ form.missing # {}
                     \/ ~ArtistExists(form.artist_id)
                     \/ VenueGet(form.venue_id) = NoVenue
        show == [id |-> Len(shows) + 1, artist_id |-> form.artist_id,
                 venue_id |-> form.venue_id, start_time |-> form.start_time]
        session == IF form.missing # {} THEN <<"rollback", "close">>
                   ELSE IF errorFlag
                        THEN <<"add", "commit", "rollback", "close">>
                        ELSE <<"add", "commit", "close">>
    IN  [shows |-> IF errorFlag THEN shows ELSE Append(shows, show),
         resp |-> Answer("create_show_submission", 0, NoForm, form, errorFlag,
                         session, 200,
                         Flash(IF errorFlag THEN "error" ELSE "success", ""))]

\* edit_venue_submission that returns before the try when get gave None
edit_venue_submission_early_return(venue_id, form) ==
    LET venue == VenueGet(venue_id)
        errorFlag == \/ venue = NoVenue
                     \/ \E k \in VenueKeys : form[k] = Missing
        edited == [id |-> venue_id,
                   name |-> form.name, city |-> form.city,
                   state |-> form.state, address |-> form.address,
                   phone |-> form.phone, image_link |-> form.image_link,
                   facebook_link |-> form.facebook_link,
                   genres |-> form.genres, website |-> form.website,
                   seeking_talent |-> form.seeking_talent # Missing,
                   seeking_description |-> form.seeking_description]
        session == IF venue = NoVenue THEN <<"get">>
                   ELSE IF errorFlag THEN <<"get", "rollback", "close">>
                   ELSE <<"get", "commit", "close">>
    IN  [venues |-> IF errorFlag THEN venues
                    ELSE [venues EXCEPT ![venue_id] = edited],
         resp |-> Answer("edit_venue_submission", venue_id, form, NoShowForm,
                         errorFlag, session, 302,
                         Flash(IF errorFlag THEN "error" ELSE "success",
                               str(venue_id)))]

\* The lookup is before the try; with venue None the first assignment in
\* the try raises AttributeError (or the form lookup raises first).
edit_venue_submission(venue_id, form) ==
    LET venue == VenueGet(venue_id)
        errorFlag == \/ venue = NoVenue
                     \/ \E k \in VenueKeys : form[k] = Missing
        edited == [id |-> venue_id,
                   name |-> form.name, city |-> form.city,
                   state |-> form.state, address |-> form.address,
                   phone |-> form.phone, image_link |-> form.image_link,
                   facebook_link |-> form.facebook_link,
                   genres |-> form.genres, website |-> form.website,
                   seeking_talent |-> form.seeking_talent # Missing,
                   seeking_description |-> form.seeking_description]
        session == IF errorFlag THEN <<"get", "rollback", "close">>
                   ELSE <<"get", "commit", "close">>
    IN  [venues |-> IF errorFlag THEN venues
                    ELSE [venues EXCEPT ![venue_id] = edited],
         resp |-> Answer("edit_venue_submission", venue_id, form, NoShowForm,
                         errorFlag, session, 302,
                         Flash(IF errorFlag THEN "error" ELSE "success",
                               str(venue_id)))]

\* As edit_venue_submission, but the flash reads request.form['name'].
edit_artist_submission(artist_id, form) ==
    LET errorFlag == \/ ~ArtistExists(artist_id)
                     \/ \E k \in ArtistKeys : form[k] = Missing
        edited == [id |-> artist_id,
                   name |-> form.name, city |-> form.city,
                   state |-> form.state,
                   phone |-> form.phone, image_link |-> form.image_link,
                   facebook_link |-> form.facebook_link,
                   genres |-> form.genres, website |-> form.website,
                   seeking_venue |-> form.seeking_venue # Missing,
                   seeking_description |-> form.seeking_description]
        op == "edit_artist_submission"
        session == IF errorFlag THEN <<"get", "rollback", "close">>
                   ELSE <<"get", "commit", "close">>
    IN  [artists |-> IF errorFlag THEN artists
                     ELSE [artists EXCEPT ![artist_id] = edited],
         resp |-> IF form.name = Missing
                  THEN Answer(op, artist_id, form, NoShowForm, errorFlag,
                              session, 400, NoFlash)
                  ELSE Answer(op, artist_id, form, NoShowForm, errorFlag,
                              session, 302,
                              Flash(IF errorFlag THEN "error" ELSE "success",
                                    form.name))]

\* delete_venue whose DELETE is not stopped by the shows of the venue
delete_venue_ignoring_shows(venue_id, found) ==
    LET gone == VenueGet(venue_id) = NoVenue
        errorFlag == ~found
        session == IF ~found THEN <<"get", "rollback", "close">>
                   ELSE <<"get", "delete", "commit", "close">>
    IN  [venues |-> IF errorFlag \/ gone THEN venues
                    ELSE [venues EXCEPT ![venue_id] = NoVenue],
         resp |-> Answer("delete_venue", venue_id, NoForm, NoShowForm,
                         errorFlag, session, 200,
                         Flash(IF errorFlag THEN "error" ELSE "success",
                               str(venue_id)))]

\* The rest of delete_venue after Venue.query.get answered (found: not
\* None). delete(None) raises. The flush sets venue_id of the venue's shows
\* to NULL, which the NOT NULL column refuses, and the foreign key refuses
\* the DELETE while a show names the venue. A row that another request
\* deleted in between matches no row, which is only a warning.
delete_venue(venue_id, found) ==
    LET gone == VenueGet(venue_id) = NoVenue
        hasShows == \E i \in 1..Len(shows) : shows[i].venue_id = venue_id
        errorFlag == ~found \/ (~gone /\ hasShows)
        session == IF ~found THEN <<"get", "rollback", "close">>
                   ELSE IF errorFlag
                        THEN <<"get", "delete", "commit", "rollback", "close">>
                        ELSE <<"get", "delete", "commit", "close">>
    IN  [venues |-> IF errorFlag \/ gone THEN venues
                    ELSE [venues EXCEPT ![venue_id] = NoVenue],
         resp |-> Answer("delete_venue", venue_id, NoForm, NoShowForm,
                         errorFlag, session, 200,
                         Flash(IF errorFlag THEN "error" ELSE "success",
                               str(venue_id)))]

\* what a detail view rendered
Detail(op, id, template, past_shows, upcoming_shows, past_n, upcoming_n) ==
    [op |-> op, id |-> id, template |-> template,
     past_shows |-> past_shows, upcoming_shows |-> upcoming_shows,
     past_shows_count |-> past_n, upcoming_shows_count |-> upcoming_n]

NoDetail == Detail("none", 0, "", <<>>, <<>>, 0, 0)

\* The two queries call datetime.today() each: today1 is the value the
\* first call gave and today2 >= today1 the value the second call gave.
show_venue(venue_id, today1, today2) ==
    LET past_shows_query ==
            SelectSeq(shows, LAMBDA s : s.venue_id = venue_id
                                        /\ s.start_time < today1)
        upcoming_shows_query ==
            SelectSeq(shows, LAMBDA s : s.venue_id = venue_id
                                        /\ s.start_time >= today2)
        entry(s) == [show_id |-> s.id, artist_id |-> s.artist_id,
                     artist_name |-> artists[s.artist_id].name,
                     start_time |-> s.start_time]
    IN  IF VenueGet(venue_id) = NoVenue
        THEN Detail("show_venue", venue_id, "errors/404.html",
                    <<>>, <<>>, 0, 0)
        ELSE Detail("show_venue", venue_id, "pages/show_venue.html",
                    [i \in 1..Len(past_shows_query) |->
                        entry(past_shows_query[i])],
                    [i \in 1..Len(upcoming_shows_query) |->
                        entry(upcoming_shows_query[i])],
                    Len(past_shows_query), Len(upcoming_shows_query))

show_artist(artist_id, today1, today2) ==
    LET past_shows_query ==
            SelectSeq(shows, LAMBDA s : s.artist_id = artist_id
                                        /\ s.start_time < today1)
        upcoming_shows_query ==
            SelectSeq(shows, LAMBDA s : s.artist_id = artist_id
                                        /\ s.start_time >= today2)
        entry(s) == [show_id |-> s.id, venue_id |-> s.venue_id,
                     venue_name |-> venues[s.venue_id].name,
                     start_time |-> s.start_time]
    IN  IF ~ArtistExists(artist_id)
        THEN Detail("show_artist", artist_id, "errors/404.html",
                    <<>>, <<>>, 0, 0)
        ELSE Detail("show_artist", artist_id, "pages/show_artist.html",
                    [i \in 1..Len(past_shows_query) |->
                        entry(past_shows_query[i])],
                    [i \in 1..Len(upcoming_shows_query) |->
                        entry(upcoming_shows_query[i])],
                    Len(past_shows_query), Len(upcoming_shows_query))

FyyurInit ==
    /\ venues = <<>>
    /\ artists = <<>>
    /\ shows = <<>>
    /\ pending = <<>>
    /\ now = 0
    /\ detail = NoDetail
    /\ fresponse = Answer("none", 0, NoForm, NoShowForm, FALSE, <<>>, 0,
                          NoFlash)

CreateVenueWith(forms) ==
    \E form \in forms :
        LET out == create_venue_submission(form)
        IN  /\ out.venues # venues => Len(venues) < MaxVenues
            /\ venues' = out.venues
            /\ fresponse' = out.resp
            /\ UNCHANGED <<artists, svars, tvars, qvars>>

CreateArtistWith(forms) ==
    \E form \in forms :
        LET out == create_artist_submission(form)
        IN  /\ out.artists # artists => Len(artists) < MaxArtists
            /\ artists' = out.artists
            /\ fresponse' = out.resp
            /\ UNCHANGED <<venues, svars, tvars, qvars>>

CreateShowWith(forms, max) ==
    \E form \in forms :
        LET out == create_show_submission(form)
        IN  /\ out.shows # shows => Len(shows) < max
            /\ shows' = out.shows
            /\ fresponse' = out.resp
            /\ UNCHANGED <<venues, artists, pending, now, detail, tvars, qvars>>

CreateVenueSubmission == CreateVenueWith(Forms)

CreateArtistSubmission == CreateArtistWith(Forms)

\* the handlers of the transaction specification, with few forms
CreateVenue == CreateVenueWith(CreateForms)

CreateArtist == CreateArtistWith(CreateForms)

CreateShow == CreateShowWith(ShowForms({0}), MaxTxShows)

EditVenueSubmission ==
    \E venue_id \in VenueIds, form \in EditForms :
        LET out == edit_venue_submission(venue_id, form)
        IN  /\ venues' = out.venues
            /\ fresponse' = out.resp
            /\ UNCHANGED <<artists, svars, tvars, qvars>>

EditArtistSubmission ==
    \E artist_id \in ArtistIds, form \in EditForms :
        LET out == edit_artist_submission(artist_id, form)
        IN  /\ artists' = out.artists
            /\ fresponse' = out.resp
            /\ UNCHANGED <<venues, svars, tvars, qvars>>

\* pending with one more request for venue_id, smallest id first
PendingWith(venue_id) ==
    LET before == SelectSeq(pending, LAMBDA id : id <= venue_id)
        after == SelectSeq(pending, LAMBDA id : id > venue_id)
    IN  before \o <<venue_id>> \o after

\* pending without its i-th request
PendingWithout(i) ==
    SubSeq(pending, 1, i - 1) \o SubSeq(pending, i + 1, Len(pending))

\* delete_venue up to the answer of Venue.query.get. With None the handler
\* fails at once. With a venue, other requests are handled before this one
\* goes on: it waits in pending.
DeleteVenueGet ==
    \E venue_id \in VenueIds :
        IF VenueGet(venue_id) = NoVenue
        THEN LET out == delete_venue(venue_id, FALSE)
             IN  /\ venues' = out.venues
                 /\ fresponse' = out.resp
                 /\ UNCHANGED <<artists, svars, tvars, qvars>>
        ELSE /\ Len(pending) < MaxPending
             /\ pending' = PendingWith(venue_id)
             /\ UNCHANGED <<venues, artists, shows, now, detail, fresponse,
                            tvars, qvars>>

DeleteVenue ==
    \E i \in 1..Len(pending) :
        LET out == delete_venue(pending[i], TRUE)
        IN  /\ venues' = out.venues
            /\ fresponse' = out.resp
            /\ pending' = PendingWithout(i)
            /\ UNCHANGED <<artists, shows, now, detail, tvars, qvars>>

\* time passes
Tick ==
    /\ now < MaxTime
    /\ now' = now + 1
    /\ UNCHANGED <<venues, artists, shows, pending, detail, fresponse,
                   tvars, qvars>>

\* the second datetime.today() is the first or later
ShowVenue ==
    \E venue_id \in VenueIds, today2 \in now..(now + 1) :
        /\ today2 <= MaxTime
        /\ detail' = show_venue(venue_id, now, today2)
        /\ now' = today2
        /\ UNCHANGED <<venues, artists, shows, pending, fresponse,
                       tvars, qvars>>

ShowArtist ==
    \E artist_id \in ArtistIds, today2 \in now..(now + 1) :
        /\ today2 <= MaxTime
        /\ detail' = show_artist(artist_id, now, today2)
        /\ now' = today2
        /\ UNCHANGED <<venues, artists, shows, pending, fresponse,
                       tvars, qvars>>

DetailCreateVenue == CreateVenueWith({FullForm("A", "y", <<"Jazz">>)})

DetailCreateArtist == CreateArtistWith({FullForm("A", "y", <<"Jazz">>)})

DetailCreateShow == CreateShowWith(ShowForms(0..MaxTime), MaxShows)

(***************************************************************************)
(* Specifications: the two applications are separate programs.             *)
(***************************************************************************)
Init == TriviaInit /\ FyyurInit

Next ==
    \/ GetCategories
    \/ GetQuestions
    \/ DeleteQuestion
    \/ CreateQuestion
    \/ SearchQuestions
    \/ GetQuestionByCategory
    \/ GetQuizQuestion

Spec == Init /\ [][Next]_vars

TriviaIdle ==
    /\ table = <<>>
    /\ nextId = 1
    /\ categories = [i \in 1..NumCategories |-> CategoryTypes[i]]
    /\ response = EmptyResp
    /\ deleted = {}
    /\ mutations = 0
    /\ quiz = NoQuiz

FyyurNext ==
    \/ CreateVenueSubmission
    \/ CreateArtistSubmission

FyyurSpecInit == TriviaIdle /\ FyyurInit

QuizSpecInit == QuizInit /\ FyyurInit

QuizNext == QuizCall

QuizSpec == QuizSpecInit /\ [][QuizNext]_vars

FyyurSpec == FyyurSpecInit /\ [][FyyurNext]_vars

FyyurTxNext ==
    \/ CreateVenue
    \/ CreateArtist
    \/ CreateShow
    \/ EditVenueSubmission
    \/ EditArtistSubmission
    \/ DeleteVenueGet
    \/ DeleteVenue

FyyurTxSpec == FyyurSpecInit /\ [][FyyurTxNext]_vars

FyyurDetailNext ==
    \/ DetailCreateVenue
    \/ DetailCreateArtist
    \/ DetailCreateShow
    \/ Tick
    \/ ShowVenue
    \/ ShowArtist

FyyurDetailSpec == FyyurSpecInit /\ [][FyyurDetailNext]_vars

(***************************************************************************)
(* Properties of the Trivia API.                                           *)
(***************************************************************************)
IsQuiz ==
    /\ response.op = "get_quiz_question"
    /\ response.req.data.quiz_category.kind = "obj"
    /\ response.req.data.previous_questions.kind = "list"

QuizP == response.req.data.previous_questions.ids
QuizC == response.req.data.quiz_category.id

\* C1: the question a POST /quizzes returns is null or has an id that is not
\* in the previous_questions list of the request.
C1_QuizExcludesPrevious ==
    (IsQuiz /\ response.question # <<>>)
        => response.question[1].id \notin QuizP

\* a question was returned although stored questions were excluded by the list
C1_Witness ==
    /\ IsQuiz
    /\ response.question # <<>>
    /\ \E r \in Rows(table) : r.id \in QuizP

\* C2: DELETE /questions/<id> of an id that is not stored answers 404 and
\* leaves the store unchanged; of a stored id it removes the question and
\* answers {success: true, deleted: id}.
C2_DeleteContract ==
    [][response'.op = "delete_question" =>
        LET id == response'.req.id
        IN  IF QueryGet(table, id) = <<>>
            THEN /\ response'.status = 404
                 /\ response'.error = 404
                 /\ table' = table
            ELSE /\ response'.status = 200
                 /\ response'.success
                 /\ response'.deleted = id
                 /\ QueryGet(table', id) = <<>>]_vars

\* ids of the questions a response carries
ResponseIds(resp) ==
    {resp.questions[i].id : i \in 1..Len(resp.questions)}
    \cup {resp.created[i].id : i \in 1..Len(resp.created)}
    \cup {resp.question[i].id : i \in 1..Len(resp.question)}

C3_Gone ==
    \A q \in deleted :
        /\ QueryGet(table, q) = <<>>
        /\ q \notin ResponseIds(response)

\* C3: once DELETE of q has succeeded, q is never stored again, no response
\* carries a question with id q, and no later DELETE of q reports success.
C3_DeletionPermanent ==
    /\ [] C3_Gone
    /\ [][\A q \in deleted :
             ~(/\ response'.op = "delete_question"
               /\ response'.req.id = q
               /\ response'.status = 200)]_vars

\* a question was created in the slot a deleted question freed, and the
\* deleted id is asked for again
C3_Witness ==
    /\ Cardinality(deleted) = 1
    /\ mutations = 2
    /\ Hole \notin {table[i] : i \in 1..Len(table)}
    /\ response.op = "delete_question"
    /\ response.req.id \in deleted
    /\ response.status # 200

\* the questions at the 1-based positions lo..hi of the id order
Positions(lo, hi) ==
    LET sorted == OrderById(table)
        first == IF lo < 1 THEN 1 ELSE lo
        last == IF hi > Len(sorted) THEN Len(sorted) ELSE hi
    IN  IF first <= last THEN SubSeq(sorted, first, last) ELSE <<>>

\* C4: GET /questions?page=p returns the questions at positions
\* (p-1)*10+1 .. p*10 of the id order with total_questions the size of the
\* store, and answers 404 when no question has such a position.
C4_PageIsPositionRange ==
    response.op = "get_questions" =>
        LET p == PageOf(response.req.page)
            expected == Positions((p - 1) * QUESTIONS_PER_PAGE + 1,
                                  p * QUESTIONS_PER_PAGE)
        IN  IF expected = <<>>
            THEN response.status = 404 /\ response.error = 404
            ELSE /\ response.status = 200
                 /\ response.questions = expected
                 /\ Len(response.questions) <= QUESTIONS_PER_PAGE
                 /\ response.total_questions = Cardinality(Rows(table))

\* size of the result list the paginated endpoint of the response slices
ResultSize ==
    IF response.op = "get_questions" THEN Cardinality(Rows(table))
    ELSE IF response.op = "search_questions"
    THEN Cardinality({r \in Rows(table) :
                         ilike(r.question, response.req.data.searchTerm.s)})
    ELSE Cardinality({r \in Rows(table) : r.category = Num(response.req.id)})

LastPage(n) == (n + QUESTIONS_PER_PAGE - 1) \div QUESTIONS_PER_PAGE

\* C5: on GET /questions, POST /questions/search and
\* GET /categories/<id>/questions a page beyond the last non-empty page of
\* the result list is answered with 404.
C5_PageBeyondLastIs404 ==
    (/\ response.op \in {"get_questions", "search_questions",
                         "get_question_by_category"}
     /\ response.op = "search_questions" => Truthy(response.req.data.searchTerm)
     /\ PageOf(response.req.page) > LastPage(ResultSize))
        => response.status = 404 /\ response.error = 404

CreateFields(data) ==
    {data.question, data.answer, data.category, data.difficulty}

\* C6: POST /questions with question, answer, category or difficulty
\* absent, null or the empty string answers 422 and inserts nothing.
C6_InvalidCreateRejected ==
    [][(/\ response'.op = "create_question"
        /\ CreateFields(response'.req.data) \cap BadValues # {})
          => /\ response'.status = 422
             /\ response'.error = 422
             /\ table' = table
             /\ nextId' = nextId]_vars

C6_Witness ==
    /\ response.op = "create_question"
    /\ CreateFields(response.req.data) \cap BadValues # {}
    /\ response.status = 422
    /\ Rows(table) # {}

\* GET /questions returns q on the page that covers its position
ListedByGetQuestions(q) ==
    LET position == Cardinality({r \in Rows(table) : r.id <= q.id})
        page == ((position - 1) \div QUESTIONS_PER_PAGE) + 1
        resp == get_questions([EmptyReq EXCEPT !.page = Page(page)])
    IN  resp.status = 200 /\ q \in Rows(resp.questions)

\* GET /categories/<category of q>/questions returns q on one of its pages
ListedByCategory(q) ==
    /\ q.category.kind = "int"
    /\ \E page \in 1..LastPage(Len(table)) :
          LET resp == get_question_by_category(
                          [EmptyReq EXCEPT !.id = q.category.n,
                                           !.page = Page(page)])
          IN  resp.status = 200 /\ q \in Rows(resp.questions)

\* the last request was a POST /questions with four non-empty fields
WasValidCreate ==
    /\ response.op = "create_question"
    /\ CreateFields(response.req.data) \cap BadValues = {}

\* the response carries the created row, which is stored with the
\* submitted values
CreatedAsSubmitted ==
    /\ response.status = 200
    /\ response.success
    /\ Len(response.created) = 1
    /\ LET q == response.created[1]
           data == response.req.data
       IN  /\ q.question = data.question
           /\ q.answer = data.answer
           /\ q.category = data.category
           /\ q.difficulty = data.difficulty
           /\ QueryGet(table, q.id) = <<q>>

\* the store gains exactly the created row
ExactlyOneNew ==
    (response'.op = "create_question" /\ response'.status = 200) =>
        /\ QueryGet(table, response'.created[1].id) = <<>>
        /\ Rows(table') = Rows(table) \cup {response'.created[1]}
        /\ Len(All(table')) = Len(All(table)) + 1

\* the question of the last create response, in the lists
CreatedListed == ListedByGetQuestions(response.created[1])
CreatedListedByCategory == ListedByCategory(response.created[1])
CreatedCategoryIs404 ==
    get_question_by_category(
        [EmptyReq EXCEPT !.id = response.created[1].category.n]).status = 404

\* C7 as stated: a valid POST /questions answers {success, created: q}, the
\* store gains exactly q with the submitted values, and q is returned by
\* GET /questions and by GET /categories/<category>/questions.
C7_CreatedRetrievable ==
    /\ [](WasValidCreate =>
            /\ CreatedAsSubmitted
            /\ CreatedListed
            /\ CreatedListedByCategory)
    /\ [][ExactlyOneNew]_vars

\* C7 amended: q is returned by GET /categories/<category>/questions when a
\* category with that id exists; otherwise that request answers 404.
C7_CreatedRetrievableInExistingCategory ==
    /\ [](WasValidCreate =>
            /\ CreatedAsSubmitted
            /\ CreatedListed
            /\ IF CategoryGet(response.created[1].category.n) # <<>>
               THEN CreatedListedByCategory
               ELSE CreatedCategoryIs404)
    /\ [][ExactlyOneNew]_vars

\* a question was created in an existing category and lies on the second page
C7_Witness ==
    /\ response.op = "create_question"
    /\ response.status = 200
    /\ CategoryGet(response.created[1].category.n) # <<>>
    /\ Cardinality(Rows(table)) > QUESTIONS_PER_PAGE
    /\ ListedByCategory(response.created[1])

\* C9: POST /quizzes whose body lacks quiz_category or previous_questions
\* (key absent or value null) answers 422.
C9_QuizMissingFieldIs422 ==
    (/\ response.op = "get_quiz_question"
     /\ \/ response.req.data.quiz_category.kind \in {"absent", "null"}
        \/ response.req.data.previous_questions.kind \in {"absent", "null"})
        => response.status = 422 /\ response.error = 422

\* stored questions eligible for category id c and previous list P
Eligible(c, P) ==
    {r \in Rows(table) : r.id \notin P /\ (c = 0 \/ r.category = Num(c))}

\* C10: the question of a POST /quizzes response is null exactly when no
\* stored question is eligible, and is an eligible question otherwise.
C10_QuizReturnsEligible ==
    IsQuiz =>
        /\ response.status = 200
        /\ (response.question = <<>>) <=> (Eligible(QuizC, QuizP) = {})
        /\ response.question # <<>>
              => response.question[1] \in Eligible(QuizC, QuizP)

\* a category was selected and a question of it returned while questions of
\* another category were stored and not excluded
C10_Witness ==
    /\ IsQuiz
    /\ QuizC # 0
    /\ response.question # <<>>
    /\ \E r \in Rows(table) : r.id \notin QuizP /\ r.category # Num(QuizC)

\* text contains term as a substring, ignoring letter case
Contains(text, term) ==
    /\ text.kind = "str"
    /\ \E i \in 0..(Len(text.s) - Len(term)) :
          \A j \in 1..Len(term) : Lower(text.s[i + j]) = Lower(term[j])

\* C11: POST /questions/search with term t answers 404 exactly when no
\* stored question text contains t ignoring case, and otherwise succeeds
\* with questions that all contain t.
C11_SearchIsSubstringMatch ==
    (/\ response.op = "search_questions"
     /\ response.req.data.searchTerm.kind = "str")
        => LET t == response.req.data.searchTerm.s
               matches == {r \in Rows(table) : Contains(r.question, t)}
           IN  IF matches = {}
               THEN response.status = 404 /\ response.error = 404
               ELSE /\ response.status = 200
                    /\ response.success
                    /\ Rows(response.questions) \subseteq matches

\* C12: GET /categories/<id>/questions answers 404 when no category has the
\* id; otherwise every returned question has that category, current_category
\* is its label and total_questions counts all stored questions of it.
C12_CategoryListing ==
    response.op = "get_question_by_category" =>
        LET id == response.req.id
        IN  IF id \notin 1..Len(categories)
            THEN response.status = 404 /\ response.error = 404
            ELSE /\ response.status = 200
                 /\ \A q \in Rows(response.questions) : q.category = Num(id)
                 /\ response.current_category = categories[id]
                 /\ response.total_questions =
                        Cardinality({r \in Rows(table) : r.category = Num(id)})

\* the second page of a category is asked: it is empty, the total is not
C12_Witness ==
    /\ response.op = "get_question_by_category"
    /\ response.status = 200
    /\ PageOf(response.req.page) = 2
    /\ response.questions = <<>>
    /\ response.total_questions > 1

\* ids the quiz session was given so far
QuizSeen ==
    {quiz.previous_questions[i] : i \in 1..Len(quiz.previous_questions)}

\* ids of the questions eligible in the session's category
QuizEligibleIds == {r.id : r \in Eligible(quiz.c, {})}

\* C17: a quiz session over an unchanged store is given every eligible
\* question exactly once and then, at call N+1, a null question.
C17_QuizSessionTerminates ==
    LET N == Cardinality(QuizEligibleIds)
    IN  /\ Cardinality(QuizSeen) = Len(quiz.previous_questions)
        /\ QuizSeen \subseteq QuizEligibleIds
        /\ quiz.calls <= N + 1
        /\ ~quiz.done => Len(quiz.previous_questions) = quiz.calls
        /\ (~quiz.done /\ quiz.calls > 0) => response.question # <<>>
        /\ quiz.done => /\ quiz.calls = N + 1
                        /\ QuizSeen = QuizEligibleIds
                        /\ response.question = <<>>

\* a session in one category ended after several questions while questions
\* of another category were stored
C17_Witness ==
    /\ quiz.done
    /\ quiz.c # 0
    /\ Len(quiz.previous_questions) > 2
    /\ \E r \in Rows(table) : r.category # Num(quiz.c)

(***************************************************************************)
(* Properties of Fyyur.                                                    *)
(***************************************************************************)
CreatedVenue == venues[Len(venues)]
CreatedArtist == artists[Len(artists)]

\* C8: after a successful create submission the stored venue or artist holds
\* every submitted form value, and its seeking flag is true exactly when the
\* checkbox key is in the form.
C8_CreateStoresForm ==
    LET form == fresponse.form
    IN  /\ (fresponse.op = "create_venue_submission"
            /\ fresponse.flash.kind = "success")
              => /\ \A k \in VenueKeys : CreatedVenue[k] = form[k]
                 /\ CreatedVenue.genres = form.genres
                 /\ CreatedVenue.seeking_talent = (form.seeking_talent # Missing)
        /\ (fresponse.op = "create_artist_submission"
            /\ fresponse.flash.kind = "success")
              => /\ \A k \in ArtistKeys : CreatedArtist[k] = form[k]
                 /\ CreatedArtist.genres = form.genres
                 /\ CreatedArtist.seeking_venue = (form.seeking_venue # Missing)

\* C13: every stored show names an artist and a venue that exist; a step
\* that stores a show stores one whose artist and venue existed, and a step
\* that deletes a venue leaves no show naming it.
C13_ShowsReferToRows ==
    \A i \in 1..Len(shows) :
        /\ ArtistExists(shows[i].artist_id)
        /\ VenueGet(shows[i].venue_id) # NoVenue

C13_StoreStep ==
    /\ shows' # shows =>
          /\ Len(shows') = Len(shows) + 1
          /\ SubSeq(shows', 1, Len(shows)) = shows
          /\ ArtistExists(shows'[Len(shows')].artist_id)
          /\ VenueGet(shows'[Len(shows')].venue_id) # NoVenue
    /\ \A id \in 1..Len(venues) :
          (venues[id] # NoVenue /\ venues'[id] = NoVenue) =>
              \A i \in 1..Len(shows') : shows'[i].venue_id # id

C13_ReferentialIntegrity == []C13_ShowsReferToRows /\ [][C13_StoreStep]_vars

\* delete_venue failed for a venue that has a show; both are still stored
C13_Witness ==
    /\ fresponse.op = "delete_venue"
    /\ fresponse.errorFlag
    /\ VenueGet(fresponse.id) # NoVenue
    /\ \E i \in 1..Len(shows) : shows[i].venue_id = fresponse.id

\* a handler answered in this step and its except branch had run
FailedStep == fresponse' # fresponse /\ fresponse'.errorFlag

\* C14: when the except branch of a mutating handler ran, the stored data is
\* what it was before the request and the response carries a failure flash.
C14_FailureRollsBackAndFlashes ==
    /\ [](fresponse.errorFlag => fresponse.flash.kind = "error")
    /\ [][FailedStep => /\ venues' = venues
                        /\ artists' = artists
                        /\ shows' = shows]_vars

\* shows of the venue or artist of the last detail view
DetailShows ==
    {i \in 1..Len(shows) :
        IF detail.op = "show_venue" THEN shows[i].venue_id = detail.id
        ELSE shows[i].artist_id = detail.id}

DetailListed(list) == {list[i].show_id : i \in 1..Len(list)}

DetailPartition ==
    detail.template \in {"pages/show_venue.html", "pages/show_artist.html"} =>
        /\ DetailListed(detail.past_shows) \cup
               DetailListed(detail.upcoming_shows) = DetailShows
        /\ DetailListed(detail.past_shows) \cap
               DetailListed(detail.upcoming_shows) = {}
        /\ detail.past_shows_count + detail.upcoming_shows_count =
               Cardinality(DetailShows)

\* C15: a detail view puts each show of its venue or artist in exactly one
\* of past_shows and upcoming_shows, and the two counts add up to the number
\* of shows stored for it.
C15_DetailPartitionsShows == [][detail' # detail => DetailPartition']_vars

MutatingOps ==
    {"create_venue_submission", "create_artist_submission",
     "create_show_submission", "edit_venue_submission",
     "edit_artist_submission", "delete_venue"}

====
